---- MODULE Spec2Model ----
(***************************************************************************)
(* State-machine model of src/src/bridge.py: main(), Bridge.__init__,      *)
(* Bridge.run (one action per statement group of the control loop),        *)
(* Bridge.close and the signal handler _safe_exit.                         *)
(*                                                                         *)
(* Units: coordinates are integers; z is counted in units of 0.5 (the      *)
(* retry bump of _spawn), step_length in units of 0.01 s.                  *)
(* An actor handle is the index of its spawn in spawnLog; NoActor is the   *)
(* Python None of an empty slot.                                           *)
(***************************************************************************)
EXTENDS Integers, Sequences, FiniteSets, TLC

\* ---------------------------------------------------------------- bounds
MaxSteps == 2
MaxHandles == 3
ClassifyRange == 2
MaxCatalog == 3
MaxRequests == 3
TransformRange == 1

\* ------------------------------------------------------------- constants
NoActor == 0
ZBump == 1

Vehicles == {"v1", "v2"}
WorldKeys == {"A", "B"}
\* Source positions a vehicle reports: zone A, the buffer's first
\* coordinate, zone B (on the x axis; the y axis sees them mirrored).
Positions == {<<0, 0>>, <<1, 3>>, <<4, 4>>}
Angles == {90}

\* <location convBoundary=... origBoundary=...> of the net file; location
\* FALSE is a net file without the <location> element.
GoodNet == [location |-> TRUE,
            conv |-> [minX |-> 0, minY |-> 0, maxX |-> 4, maxY |-> 4],
            orig |-> [minX |-> -2, minY |-> -2, maxX |-> 2, maxY |-> 2]]
FlatNet == [location |-> TRUE,
            conv |-> [minX |-> 0, minY |-> 0, maxX |-> 0, maxY |-> 4],
            orig |-> [minX |-> -2, minY |-> -2, maxX |-> 2, maxY |-> 2]]
NoLocNet == [location |-> FALSE,
             conv |-> [minX |-> 0, minY |-> 0, maxX |-> 4, maxY |-> 4],
             orig |-> [minX |-> -2, minY |-> -2, maxX |-> 2, maxY |-> 2]]
NetFiles == {GoodNet, FlatNet, NoLocNet}

\* Config(path): the zone, the step length and the net file it names.
ZoneConfig(a, s, e) == [axis |-> a, start |-> s, end |-> e, z_offset |-> 0]
MkConfig(z, n) == [zone |-> z, step_length |-> 5, net |-> n]
RunConfigs == {MkConfig(ZoneConfig(a, -1, 1), GoodNet) : a \in {"x", "y"}}
              \cup {MkConfig(ZoneConfig("x", -1, 1), n) : n \in {FlatNet, NoLocNet}}
              \cup {MkConfig(ZoneConfig("z", -1, 1), GoodNet)}

\* Blueprint catalogs the two worlds report (their sizes).
Catalogs == {[A |-> 2, B |-> 2], [A |-> 2, B |-> 0]}

\* hash(vid) of a str depends on the process's hash seed (PYTHONHASHSEED)
\* and is fixed for the life of the process; it may be negative.
HashSeeds == {"s0", "s1", "s2"}
Hash == [s0 |-> [v1 |-> -7, v2 |-> 4],
         s1 |-> [v1 |-> 3, v2 |-> -3],
         s2 |-> [v1 |-> -1, v2 |-> 6]]

OrigSettings == [synchronous_mode |-> FALSE, fixed_delta_seconds |-> 0]

EmptyReg == [v \in {} |-> [A |-> NoActor, B |-> NoActor]]
EmptySlots == [A |-> NoActor, B |-> NoActor]
NoTf == [x |-> 0, y |-> 0, z |-> 0, yaw |-> 0]
NoVid == "none"

VARIABLES
    pc,            \* position of the main thread
    argc,          \* len(sys.argv)
    cfg,           \* Config read from the file
    catalog,       \* what the worlds' blueprint libraries hold
    hashSeed,      \* the hash seed of the process
    connected,     \* world -> a client obtained its world
    settings,      \* world -> the settings currently applied in the world
    bps,           \* Bridge.bps_a / bps_b (catalog sizes)
    handlers,      \* the SIGINT/SIGTERM handlers are installed
    sumo,          \* "off" | "running" | "closed"
    actors,        \* Bridge.actors
    last_ids,      \* Bridge._last_ids
    ids,           \* run: ids
    gone,          \* run: rest of list(self._last_ids - ids)
    todo,          \* run: rest of `for vid in ids`
    vid,           \* run: vid
    tf,            \* run: tf (mutated in place by _spawn)
    worlds_needed, \* run: worlds_needed
    state,         \* run: state
    spawnLog,      \* world side: every actor ever spawned, <<vid, world>>
    destroyCalls,  \* world side: handle -> number of destroy() calls
    steps,         \* number of traci.simulationStep() calls
    ticks,         \* world -> number of tick() calls
    exitStatus,    \* -1 while the process runs
    hist           \* history of the run (observation only)

vars == <<pc, argc, cfg, catalog, hashSeed, connected, settings, bps, handlers, sumo,
          actors, last_ids, ids, gone, todo, vid, tf, worlds_needed, state,
          spawnLog, destroyCalls, steps, ticks, exitStatus, hist>>

\* Observation record: what the claims need to remember of the past.
\*   membership : vid -> worlds_needed most recently computed
\*   lastSpawn  : vid -> world -> outcome of the most recent _spawn
\*                (both since the vehicle's registry entry was last dropped)
\*   spawnReq   : <<vid, world>> for which _spawn was called in this step
\*   moved      : handles set_transform was called on in this step
\*   prev       : actors / membership when this step began
\*   closeCalls : number of Bridge.close() calls begun
\*   closeDone  : number of Bridge.close() calls that returned
\*   closeSeq   : a close() was begun after an earlier one had returned
\*   closeReg   : handles the registry held when close() was first called
\*   closeLast  : number of destroy() calls the latest close() made
\*   closeFaults: the calls of the latest close() that failed
\*   raised     : an exception reached main's except clause
\*   spawnRaised: ... and it came out of a _spawn call
\*   signalled  : _safe_exit ran
\*   envFail    : a swallowed destroy / apply_settings / traci.close failure
\*   postDestroy: a call was made on a handle after destroy() on it
\*   bpLog      : the blueprint selections made, in order
\*   srcPos     : the source position given to sumo_to_carla_transform
\*   tries      : the try_spawn_actor calls of the latest _spawn for the
\*                vehicle being reconciled (world, z passed, result)
NoTries == [world |-> "none", calls |-> <<>>]
NoSpawn == [v \in Vehicles |-> [A |-> "none", B |-> "none"]]
NoMembership == [v \in Vehicles |-> {}]
HistInit == [membership |-> NoMembership,
             lastSpawn |-> NoSpawn,
             spawnReq |-> {},
             moved |-> {},
             prev |-> [actors |-> EmptyReg, membership |-> NoMembership],
             closeCalls |-> 0,
             closeDone |-> 0,
             closeSeq |-> FALSE,
             closeReg |-> {},
             closeLast |-> 0,
             closeFaults |-> {},
             raised |-> FALSE,
             spawnRaised |-> FALSE,
             signalled |-> FALSE,
             envFail |-> FALSE,
             postDestroy |-> FALSE,
             bpLog |-> <<>>,
             srcPos |-> <<0, 0>>,
             tries |-> NoTries]

Init ==
    /\ pc = "main"
    /\ argc \in {1, 2, 3}
    /\ cfg \in RunConfigs
    /\ catalog \in Catalogs
    /\ hashSeed = "s0"
    /\ connected = [w \in WorldKeys |-> FALSE]
    /\ settings = [w \in WorldKeys |-> OrigSettings]
    /\ bps = [w \in WorldKeys |-> 0]
    /\ handlers = FALSE
    /\ sumo = "off"
    /\ actors = EmptyReg
    /\ last_ids = {}
    /\ ids = {}
    /\ gone = {}
    /\ todo = {}
    /\ vid = NoVid
    /\ tf = NoTf
    /\ worlds_needed = {}
    /\ state = EmptySlots
    /\ spawnLog = <<>>
    /\ destroyCalls = <<>>
    /\ steps = 0
    /\ ticks = [w \in WorldKeys |-> 0]
    /\ exitStatus = -1
    /\ hist = HistInit

\* ------------------------------------------------------- pure functions

\* read_boundaries_from_net raises when the <location> element is absent.
ReadBoundariesRaises(net) == ~net.location

\* create_coordinate_transformer.transform divides by the conv box's width
\* and height: a zero one raises ZeroDivisionError when transform is called.
TransformRaises(net) ==
    \/ net.conv.maxX = net.conv.minX
    \/ net.conv.maxY = net.conv.minY

\* transform(convX, convY); the quotient is taken after the product, which
\* is exact for the calibrations of NetFiles.
Transform(net, convX, convY) ==
    [x |-> net.orig.minX
           + ((convX - net.conv.minX) * (net.orig.maxX - net.orig.minX))
             \div (net.conv.maxX - net.conv.minX),
     y |-> net.orig.minY
           + ((convY - net.conv.minY) * (net.orig.maxY - net.orig.minY))
             \div (net.conv.maxY - net.conv.minY)]

\* Variant: the y coordinate keeps its sign.
SumoToCarlaNoInversion(net, xs, ys, angle, z) ==
    LET p == Transform(net, xs, ys)
    IN  [x |-> p.x, y |-> p.y, z |-> z, yaw |-> angle - 90]

sumo_to_carla_transform(net, xs, ys, angle, z) ==
    LET p == Transform(net, xs, ys)
    IN  [x |-> p.x, y |-> -p.y, z |-> z, yaw |-> angle - 90]

\* Variant: the buffer's first coordinate is taken for zone A.
AssignWorldsExclusiveStart(zone, x, y) ==
    IF zone.axis = "x"
    THEN IF x <= zone.start THEN {"A"}
         ELSE IF x > zone.end THEN {"B"}
         ELSE {"A", "B"}
    ELSE IF y <= zone.start THEN {"A"}
         ELSE IF y > zone.end THEN {"B"}
         ELSE {"A", "B"}

_assign_worlds(zone, x, y) ==
    IF zone.axis = "x"
    THEN IF x < zone.start THEN {"A"}
         ELSE IF x > zone.end THEN {"B"}
         ELSE {"A", "B"}
    ELSE IF y < zone.start THEN {"A"}
         ELSE IF y > zone.end THEN {"B"}
         ELSE {"A", "B"}

Abs(n) == IF n < 0 THEN 0 - n ELSE n

\* Variant: the index is counted from one.
BlueprintIndexFromOne(h, n) == (Abs(h) % n) + 1

\* _spawn: idx = abs(hash(vid)) % len(bps)
BlueprintIndex(h, n) == Abs(h) % n

\* Config.__init__: the zone axis must be "x" or "y".
ConfigRaises(c) == c.zone.axis \notin {"x", "y"}

\* Variant: synchronous mode without the fixed delta.
SyncSettingsNoDelta(dt) == [synchronous_mode |-> TRUE, fixed_delta_seconds |-> 0]

\* _apply_sync(world, dt): the settings it applies.
SyncSettings(dt) == [synchronous_mode |-> TRUE, fixed_delta_seconds |-> dt]

\* ------------------------------------------------------ registry helpers

\* Variant: the difference taken the wrong way round.
GoneListReversed(last, now) == now \ last

\* list(self._last_ids - ids)
GoneList(last, now) == last \ now

\* Variant: the stored entry is not looked up.
GetStateFresh(reg, v) == EmptySlots

\* self.actors.get(vid, {"A": None, "B": None})
GetState(reg, v) == IF v \in DOMAIN reg THEN reg[v] ELSE EmptySlots

\* Variant: an entry whose two slots are empty is not kept.
PutStateUnlessEmpty(reg, v, st) ==
    IF st = EmptySlots
    THEN [u \in DOMAIN reg \ {v} |-> reg[u]]
    ELSE [u \in DOMAIN reg \cup {v} |-> IF u = v THEN st ELSE reg[u]]

\* self.actors[vid] = state
PutState(reg, v, st) ==
    [u \in DOMAIN reg \cup {v} |-> IF u = v THEN st ELSE reg[u]]

\* `state` is the registry's own dict when the vehicle already has an entry:
\* an assignment to state[w] is then an assignment to self.actors[vid][w].
WriteThrough(reg, v, st) ==
    IF v \in DOMAIN reg THEN [reg EXCEPT ![v] = st] ELSE reg

\* Variant: only the "A" slot is visited.
DestroyEverywhereOnlyA(reg, v) ==
    IF v \in DOMAIN reg
    THEN {reg[v]["A"]} \ {NoActor}
    ELSE {}

\* _destroy_vehicle_everywhere: the actors it calls _safe_destroy on
DestroyEverywhereTargets(reg, v) ==
    IF v \in DOMAIN reg
    THEN {reg[v][w] : w \in WorldKeys} \ {NoActor}
    ELSE {}

\* Variant: the entry is left in the registry.
DestroyEverywhereNoPop(reg, v) == reg

\* _destroy_vehicle_everywhere: self.actors.pop(vid, None)
DestroyEverywherePop(reg, v) == [u \in DOMAIN reg \ {v} |-> reg[u]]

\* Variant: the membership test of the destroy is inverted.
NeedsDestroyInverted(w, wn, st) == w \in wn /\ st[w] # NoActor

\* Variant: a spawn is requested only for a vehicle without any actor.
NeedsSpawnNewOnly(w, wn, st) == w \in wn /\ st = EmptySlots

\* Variant: an occupied slot is spawned into again.
NeedsSpawnAlways(w, wn, st) == w \in wn

\* run: the three per-world conditions of the reconciliation
NeedsSpawn(w, wn, st) == w \in wn /\ st[w] = NoActor
NeedsDestroy(w, wn, st) == w \notin wn /\ st[w] # NoActor
NeedsMove(w, st) == st[w] # NoActor

\* Variant: the slot keeps the handle after the destroy.
ClearSlotKept(st, w) == st

\* state[w] = None   (lines 259, 261)
ClearSlot(st, w) == [st EXCEPT ![w] = NoActor]

\* _spawn: what the two try_spawn_actor calls did.
\*   first : the first call returned an actor
\*   retry : the first returned None, the second an actor
\*   null  : both returned None
\*   raise1: the first call raised;  raise2: the second call raised
SpawnOutcomes == {"first", "retry", "null", "raise1", "raise2"}
SpawnReturnsActor(out) == out \in {"first", "retry"}
\* tf.location.z += 0.5 was executed
SpawnBumps(out) == out \in {"retry", "null", "raise2"}

\* Variant: the retry is made at the z of the first attempt.
TrySpawnCallsNoBump(out, z) ==
    IF out \in {"first", "raise1"}
    THEN <<[z |-> z, result |-> IF out = "first" THEN "actor" ELSE "raise"]>>
    ELSE <<[z |-> z, result |-> "null"],
           [z |-> z,
            result |-> IF out = "retry" THEN "actor"
                       ELSE IF out = "null" THEN "null" ELSE "raise"]>>

\* _spawn, lines 196-205: the try_spawn_actor calls made, with the z of the
\* transform passed and what the world answered. The second call is inside
\* `if actor is None`, after tf.location.z += 0.5.
TrySpawnCalls(out, z) ==
    IF out \in {"first", "raise1"}
    THEN <<[z |-> z, result |-> IF out = "first" THEN "actor" ELSE "raise"]>>
    ELSE <<[z |-> z, result |-> "null"],
           [z |-> z + ZBump,
            result |-> IF out = "retry" THEN "actor"
                       ELSE IF out = "null" THEN "null" ELSE "raise"]>>

\* ------------------------------------------------------------ world side

\* destroy() called on every handle of hs; those of failed raise and stay.
CountDestroy(dc, hs) == [h \in DOMAIN dc |-> IF h \in hs THEN dc[h] + 1 ELSE dc[h]]

\* -------------------------------------------------------------- position

LoopPcs == {"step", "gone", "veh", "spawnA", "spawnB", "destroyA",
            "destroyB", "moveA", "moveB", "store", "tickA", "tickB", "last"}
SlotOpPcs == {"spawnA", "spawnB", "destroyA", "destroyB", "moveA", "moveB"}
SlotSeq == <<"spawnA", "spawnB", "destroyA", "destroyB", "moveA", "moveB">>
PcIndex == [spawnA |-> 1, spawnB |-> 2, destroyA |-> 3, destroyB |-> 4,
            moveA |-> 5, moveB |-> 6]
PcSpawn == [A |-> "spawnA", B |-> "spawnB"]
PcDestroy == [A |-> "destroyA", B |-> "destroyB"]
PcMove == [A |-> "moveA", B |-> "moveB"]

\* The `if` at position p of lines 252-264 has its condition true.
Applies(p, wn, st) ==
    \/ \E w \in WorldKeys : p = PcSpawn[w] /\ NeedsSpawn(w, wn, st)
    \/ \E w \in WorldKeys : p = PcDestroy[w] /\ NeedsDestroy(w, wn, st)
    \/ \E w \in WorldKeys : p = PcMove[w] /\ NeedsMove(w, st)

\* Variant: a spawn that returned None ends the vehicle's reconciliation.
NextStmtStopOnFailure(i, wn, st) ==
    LET c == {j \in (i + 1) .. Len(SlotSeq) : Applies(SlotSeq[j], wn, st)}
    IN  IF c = {} \/ (i = 1 /\ st["A"] = NoActor) \/ (i = 2 /\ st["B"] = NoActor)
        THEN "store"
        ELSE SlotSeq[CHOOSE j \in c : \A k \in c : j <= k]

\* Control after the i-th `if`: an `if` whose condition is false does
\* nothing and is passed over; after the last one comes line 266.
NextStmt(i, wn, st) ==
    LET c == {j \in (i + 1) .. Len(SlotSeq) : Applies(SlotSeq[j], wn, st)}
    IN  IF c = {} THEN "store"
        ELSE SlotSeq[CHOOSE j \in c : \A k \in c : j <= k]

\* Variant: a `for` loop is left with elements still to visit.
LoopExhaustedAlways(rest) == TRUE

\* A `for` loop (lines 236, 240) ends when every element was visited.
LoopExhausted(rest) == rest = {}

\* The observation of the step in progress ends when the loop is left.
LeftLoop(h) == [h EXCEPT !.membership = NoMembership, !.lastSpawn = NoSpawn,
                         !.spawnReq = {}, !.moved = {}, !.prev = HistInit.prev,
                         !.tries = NoTries]

\* The frame of run() is gone once the process leaves the loop.
ClearLocals ==
    /\ ids' = {}
    /\ gone' = {}
    /\ todo' = {}
    /\ vid' = NoVid
    /\ tf' = NoTf
    /\ worlds_needed' = {}
    /\ state' = EmptySlots

LocalVars == <<ids, gone, todo, vid, tf, worlds_needed, state>>
WorldVars == <<spawnLog, destroyCalls>>
BootVars == <<argc, cfg, catalog, hashSeed>>

\* ---------------------------------------------------------------- main()

\* An uncaught exception ends the interpreter with status 1, no teardown.
Uncaught ==
    /\ pc' = "done"
    /\ exitStatus' = 1

\* if len(sys.argv) != 2: sys.exit(1)
CheckArgs ==
    /\ pc = "main"
    /\ IF argc # 2
       THEN pc' = "done" /\ exitStatus' = 1
       ELSE pc' = "config" /\ exitStatus' = exitStatus
    /\ UNCHANGED <<BootVars, connected, settings, bps, handlers, sumo, actors,
                   last_ids, LocalVars, WorldVars, steps, ticks, hist>>

\* cfg = Config(sys.argv[1])
LoadConfig ==
    /\ pc = "config"
    /\ IF ConfigRaises(cfg)
       THEN Uncaught
       ELSE pc' = "connect" /\ exitStatus' = exitStatus
    /\ UNCHANGED <<BootVars, connected, settings, bps, handlers, sumo, actors,
                   last_ids, LocalVars, WorldVars, steps, ticks, hist>>

\* Bridge.__init__: the two clients, get_world() of A then of B, and the
\* saved settings. get_world() raises when the server is not reached.
InitConnect ==
    /\ pc = "connect"
    /\ \E reached \in {{}, {"A"}, {"A", "B"}} :
          /\ connected' = [w \in WorldKeys |-> w \in reached]
          /\ IF reached = WorldKeys
             THEN pc' = "syncA" /\ exitStatus' = exitStatus
             ELSE Uncaught
    /\ UNCHANGED <<BootVars, settings, bps, handlers, sumo, actors,
                   last_ids, LocalVars, WorldVars, steps, ticks, hist>>

\* self._apply_sync(world, self.cfg.sumo.step_length)
InitSync(w) ==
    /\ pc = IF w = "A" THEN "syncA" ELSE "syncB"
    /\ \/ /\ settings' = [settings EXCEPT ![w] = SyncSettings(cfg.step_length)]
          /\ pc' = IF w = "A" THEN "syncB" ELSE "bps"
          /\ exitStatus' = exitStatus
       \/ /\ settings' = settings
          /\ Uncaught
    /\ UNCHANGED <<BootVars, connected, bps, handlers, sumo, actors,
                   last_ids, LocalVars, WorldVars, steps, ticks, hist>>

\* self.bps_a / self.bps_b, self.actors = {}, self._last_ids = set()
InitBlueprints ==
    /\ pc = "bps"
    /\ \/ /\ bps' = catalog
          /\ pc' = "boundaries"
          /\ exitStatus' = exitStatus
       \/ /\ bps' = bps
          /\ Uncaught
    /\ UNCHANGED <<BootVars, connected, settings, handlers, sumo, actors,
                   last_ids, LocalVars, WorldVars, steps, ticks, hist>>

\* conv, orig = read_boundaries_from_net(...); create_coordinate_transformer
InitBoundaries ==
    /\ pc = "boundaries"
    /\ IF ReadBoundariesRaises(cfg.net)
       THEN Uncaught
       ELSE pc' = "handlers" /\ exitStatus' = exitStatus
    /\ UNCHANGED <<BootVars, connected, settings, bps, handlers, sumo, actors,
                   last_ids, LocalVars, WorldVars, steps, ticks, hist>>

\* signal.signal(SIGINT, _safe_exit); signal.signal(SIGTERM, _safe_exit)
InstallHandlers ==
    /\ pc = "handlers"
    /\ handlers' = TRUE
    /\ pc' = "start_sumo"
    /\ UNCHANGED <<BootVars, connected, settings, bps, sumo, actors, last_ids,
                   LocalVars, WorldVars, steps, ticks, exitStatus, hist>>

\* A signal before the handlers are installed has its default effect: the
\* process ends with a non-zero status (130 for SIGINT) and no teardown.
EarlySignal ==
    /\ pc \in {"config", "connect", "syncA", "syncB", "bps", "boundaries", "handlers"}
    /\ ~handlers
    /\ pc' = "done"
    /\ exitStatus' = 130
    /\ UNCHANGED <<BootVars, connected, settings, bps, handlers, sumo, actors,
                   last_ids, LocalVars, WorldVars, steps, ticks, hist>>

\* ------------------------------------------------------------ Bridge.run

\* self.start_sumo()
StartSumo ==
    /\ pc = "start_sumo"
    /\ sumo' = "running"
    /\ pc' = "step"
    /\ UNCHANGED <<BootVars, connected, settings, bps, handlers, actors, last_ids,
                   LocalVars, WorldVars, steps, ticks, exitStatus, hist>>

\* traci.simulationStep(); ids = set(traci.vehicle.getIDList());
\* list(self._last_ids - ids)
SimStep ==
    /\ pc = "step"
    /\ steps < MaxSteps
    /\ steps' = steps + 1
    /\ \E now \in SUBSET Vehicles :
          /\ ids' = now
          /\ gone' = GoneList(last_ids, now)
    /\ pc' = "gone"
    /\ hist' = [hist EXCEPT !.spawnReq = {}, !.moved = {},
                            !.prev = [actors |-> actors,
                                      membership |-> hist.membership]]
    /\ UNCHANGED <<BootVars, connected, settings, bps, handlers, sumo, actors,
                   last_ids, todo, vid, tf, worlds_needed, state, WorldVars,
                   ticks, exitStatus>>

\* for gone in ...: self._destroy_vehicle_everywhere(gone)
\* (_safe_destroy swallows a failing destroy(); the actor then stays)
DestroyGone ==
    /\ pc = "gone"
    /\ \E g \in gone :
          LET hs == DestroyEverywhereTargets(actors, g) IN
          \E failed \in BOOLEAN :
             /\ failed => hs # {}
             /\ destroyCalls' = CountDestroy(destroyCalls, hs)
             /\ actors' = DestroyEverywherePop(actors, g)
             /\ gone' = gone \ {g}
             /\ hist' = [hist EXCEPT
                           !.membership[g] = {},
                           !.lastSpawn[g] = NoSpawn[g],
                           !.envFail = @ \/ failed,
                           !.postDestroy = @ \/ \E h \in hs : destroyCalls[h] > 0]
    /\ UNCHANGED <<pc, BootVars, connected, settings, bps, handlers, sumo,
                   last_ids, ids, todo, vid, tf, worlds_needed, state, spawnLog,
                   steps, ticks, exitStatus>>

\* for vid in ids:  (the loop is entered)
BeginVehicles ==
    /\ pc = "gone"
    /\ LoopExhausted(gone)
    /\ todo' = ids
    /\ pc' = "veh"
    /\ UNCHANGED <<BootVars, connected, settings, bps, handlers, sumo, actors,
                   last_ids, ids, gone, vid, tf, worlds_needed, state, WorldVars,
                   steps, ticks, exitStatus, hist>>

\* xs, ys = getPosition(vid); angle = getAngle(vid); z = cfg.zone.z_offset;
\* tf = sumo_to_carla_transform(...); worlds_needed = _assign_worlds(...);
\* state = self.actors.get(vid, {"A": None, "B": None})
ReadVehicle ==
    /\ pc = "veh"
    /\ ~TransformRaises(cfg.net)
    /\ \E v \in todo, pos \in Positions, angle \in Angles :
          LET t == sumo_to_carla_transform(cfg.net, pos[1], pos[2], angle,
                                           cfg.zone.z_offset)
              wn == _assign_worlds(cfg.zone, t.x, t.y)
          IN  /\ vid' = v
              /\ tf' = t
              /\ worlds_needed' = wn
              /\ state' = GetState(actors, v)
              /\ hist' = [hist EXCEPT !.membership[v] = wn]
              /\ pc' = NextStmt(0, wn, GetState(actors, v))
    /\ UNCHANGED <<BootVars, connected, settings, bps, handlers, sumo, actors,
                   last_ids, ids, gone, todo, WorldVars, steps, ticks, exitStatus>>

\* state[w] = self._spawn(world, bps, vid, tf)   (lines 252-255, 190-205)
\* idx = abs(hash(vid)) % len(bps) needs a non-empty catalog. The world
\* decides the outcome; it refuses once MaxHandles actors were spawned.
Spawn(w) ==
    /\ pc = PcSpawn[w]
    /\ NeedsSpawn(w, worlds_needed, state)
    /\ bps[w] > 0
    /\ \E out \in SpawnOutcomes :
          LET h == IF SpawnReturnsActor(out) THEN Len(spawnLog) + 1 ELSE NoActor
              st == [state EXCEPT ![w] = h]
          IN  /\ SpawnReturnsActor(out) => Len(spawnLog) < MaxHandles
              /\ IF SpawnReturnsActor(out)
                 THEN /\ spawnLog' = Append(spawnLog, <<vid, w>>)
                      /\ destroyCalls' = Append(destroyCalls, 0)
                 ELSE UNCHANGED <<spawnLog, destroyCalls>>
              /\ tf' = IF SpawnBumps(out) THEN [tf EXCEPT !.z = @ + ZBump] ELSE tf
              /\ state' = st
              /\ actors' = WriteThrough(actors, vid, st)
              /\ hist' = [hist EXCEPT
                            !.lastSpawn[vid][w] =
                                IF SpawnReturnsActor(out) THEN "ok" ELSE "fail",
                            !.spawnReq = @ \cup {<<vid, w>>},
                            !.tries = [world |-> w,
                                       calls |-> TrySpawnCalls(out, tf.z)]]
              /\ pc' = NextStmt(PcIndex[pc], worlds_needed, st)
    /\ UNCHANGED <<BootVars, connected, settings, bps, handlers, sumo, last_ids,
                   ids, gone, todo, vid, worlds_needed, steps, ticks, exitStatus>>

\* self._safe_destroy(state[w]); state[w] = None   (lines 258-261)
Destroy(w) ==
    /\ pc = PcDestroy[w]
    /\ NeedsDestroy(w, worlds_needed, state)
    /\ LET h == state[w]
           st == ClearSlot(state, w)
       IN  \E ok \in BOOLEAN :
              /\ destroyCalls' = CountDestroy(destroyCalls, {h})
              /\ state' = st
              /\ actors' = WriteThrough(actors, vid, st)
              /\ hist' = [hist EXCEPT
                            !.envFail = @ \/ ~ok,
                            !.postDestroy = @ \/ destroyCalls[h] > 0]
              /\ pc' = NextStmt(PcIndex[pc], worlds_needed, st)
    /\ UNCHANGED <<BootVars, connected, settings, bps, handlers, sumo, last_ids,
                   ids, gone, todo, vid, tf, worlds_needed, spawnLog, steps,
                   ticks, exitStatus>>

\* if state[w]: state[w].set_transform(tf)   (lines 263-264)
Move(w) ==
    /\ pc = PcMove[w]
    /\ NeedsMove(w, state)
    /\ hist' = [hist EXCEPT
                  !.moved = @ \cup {state[w]},
                  !.postDestroy = @ \/ destroyCalls[state[w]] > 0]
    /\ pc' = NextStmt(PcIndex[pc], worlds_needed, state)
    /\ UNCHANGED <<BootVars, connected, settings, bps, handlers, sumo, actors,
                   last_ids, LocalVars, WorldVars, steps, ticks, exitStatus>>

\* self.actors[vid] = state   (line 266); vid, tf, worlds_needed and state
\* are dead until the next iteration assigns them.
Store ==
    /\ pc = "store"
    /\ actors' = PutState(actors, vid, state)
    /\ todo' = todo \ {vid}
    /\ vid' = NoVid
    /\ tf' = NoTf
    /\ worlds_needed' = {}
    /\ state' = EmptySlots
    /\ pc' = "veh"
    /\ hist' = [hist EXCEPT !.tries = NoTries]
    /\ UNCHANGED <<BootVars, connected, settings, bps, handlers, sumo, last_ids,
                   ids, gone, WorldVars, steps, ticks, exitStatus>>

\* for vid in ids:  (exhausted)
EndVehicles ==
    /\ pc = "veh"
    /\ LoopExhausted(todo)
    /\ pc' = "tickA"
    /\ UNCHANGED <<BootVars, connected, settings, bps, handlers, sumo, actors,
                   last_ids, LocalVars, WorldVars, steps, ticks, exitStatus, hist>>

\* self.world_a.tick() / self.world_b.tick()
Tick(w) ==
    /\ pc = IF w = "A" THEN "tickA" ELSE "tickB"
    /\ ticks' = [ticks EXCEPT ![w] = @ + 1]
    /\ pc' = IF w = "A" THEN "tickB" ELSE "last"
    /\ UNCHANGED <<BootVars, connected, settings, bps, handlers, sumo, actors,
                   last_ids, LocalVars, WorldVars, steps, exitStatus, hist>>

\* self._last_ids = ids
SetLast ==
    /\ pc = "last"
    /\ last_ids' = ids
    /\ pc' = "step"
    /\ UNCHANGED <<BootVars, connected, settings, bps, handlers, sumo, actors,
                   LocalVars, WorldVars, steps, ticks, exitStatus, hist>>

\* A call of run() outside any try raises: traci.start, simulationStep,
\* getPosition/getAngle or the transform's division, the catalog index of
\* _spawn (empty catalog), set_transform, tick.
RaisesAt ==
    \/ pc \in {"start_sumo", "step", "tickA", "tickB"}
    \/ pc = "veh" /\ todo # {}
    \/ \E w \in WorldKeys : pc = PcMove[w] /\ NeedsMove(w, state)
    \/ \E w \in WorldKeys :
          pc = PcSpawn[w] /\ NeedsSpawn(w, worlds_needed, state) /\ bps[w] = 0

RunRaises ==
    /\ RaisesAt
    /\ pc' = "except"
    /\ hist' = [LeftLoop(hist) EXCEPT
                  !.raised = TRUE,
                  !.spawnRaised = \E w \in WorldKeys : pc = PcSpawn[w]]
    /\ ClearLocals
    /\ UNCHANGED <<BootVars, connected, settings, bps, handlers, sumo, actors,
                   last_ids, WorldVars, steps, ticks, exitStatus>>

\* ---------------------------------------------------------- Bridge.close

\* for vid in list(self.actors.keys()): self._destroy_vehicle_everywhere(vid)
\* the actors destroy() is called on ...
RECURSIVE CloseTargets(_, _)
CloseTargets(reg, keys) ==
    IF keys = {} THEN {}
    ELSE LET v == CHOOSE u \in keys : TRUE
         IN  DestroyEverywhereTargets(reg, v)
             \cup CloseTargets(DestroyEverywherePop(reg, v), keys \ {v})

\* ... and the registry the loop leaves
RECURSIVE CloseRegistry(_, _)
CloseRegistry(reg, keys) ==
    IF keys = {} THEN reg
    ELSE LET v == CHOOSE u \in keys : TRUE
         IN  CloseRegistry(DestroyEverywherePop(reg, v), keys \ {v})

\* close() is entered
EnterClose(h, bySignal) ==
    [LeftLoop(h) EXCEPT
        !.closeCalls = @ + 1,
        !.closeReg = IF h.closeCalls = 0
                     THEN CloseTargets(actors, DOMAIN actors)
                     ELSE @,
        !.closeLast = 0,
        !.closeSeq = @ \/ (bySignal /\ h.closeDone > 0),
        !.signalled = @ \/ bySignal]

\* except Exception as e: print(...); bridge.close()
Except ==
    /\ pc = "except"
    /\ hist' = EnterClose(hist, FALSE)
    /\ pc' = "close"
    /\ UNCHANGED <<BootVars, connected, settings, bps, handlers, sumo, actors,
                   last_ids, LocalVars, WorldVars, steps, ticks, exitStatus>>

\* _safe_exit(sig, frame): bridge.close(). The handler runs between two
\* statements of the main thread, from the moment it is installed, also
\* once main's except clause is reached; one signal is delivered at most.
Signal ==
    /\ handlers
    /\ ~hist.signalled
    /\ pc \in LoopPcs \cup {"start_sumo", "except", "close", "exit2"}
    /\ hist' = EnterClose(hist, TRUE)
    /\ pc' = "close"
    /\ ClearLocals
    /\ UNCHANGED <<BootVars, connected, settings, bps, handlers, sumo, actors,
                   last_ids, WorldVars, steps, ticks, exitStatus>>

\* The signal arrives while actor.destroy() of line 259 / 261 is being
\* made: the handler runs when the call is back, before state[w] = None.
DestroyInterrupted(w) ==
    /\ handlers
    /\ ~hist.signalled
    /\ pc = PcDestroy[w]
    /\ NeedsDestroy(w, worlds_needed, state)
    /\ \E ok \in BOOLEAN :
          /\ destroyCalls' = CountDestroy(destroyCalls, {state[w]})
          /\ hist' = [EnterClose(hist, TRUE) EXCEPT
                        !.envFail = @ \/ ~ok,
                        !.postDestroy = @ \/ destroyCalls[state[w]] > 0]
    /\ pc' = "close"
    /\ ClearLocals
    /\ UNCHANGED <<BootVars, connected, settings, bps, handlers, sumo, actors,
                   last_ids, spawnLog, steps, ticks, exitStatus>>

\* The actors _destroy_vehicle_everywhere has called destroy() on when it
\* is interrupted before line 166: the one of "A", or those of both keys.
DestroyedSoFar(reg, v) ==
    {hs \in {{reg[v]["A"]} \ {NoActor}, DestroyEverywhereTargets(reg, v)} : hs # {}}

\* The signal arrives while a destroy() of _destroy_vehicle_everywhere is
\* being made for a vanished vehicle: the handler runs before the pop.
DestroyGoneInterrupted ==
    /\ handlers
    /\ ~hist.signalled
    /\ pc = "gone"
    /\ \E g \in gone \cap DOMAIN actors :
          \E hs \in DestroyedSoFar(actors, g) :
             /\ destroyCalls' = CountDestroy(destroyCalls, hs)
             /\ hist' = [EnterClose(hist, TRUE) EXCEPT
                           !.postDestroy = @ \/ \E h \in hs : destroyCalls[h] > 0]
    /\ pc' = "close"
    /\ ClearLocals
    /\ UNCHANGED <<BootVars, connected, settings, bps, handlers, sumo, actors,
                   last_ids, spawnLog, steps, ticks, exitStatus>>

\* The calls of one close() that fail: none, or one of them (a destroy,
\* the apply_settings of A or of B, traci.close).
CloseFaults == {{}} \cup {{c} : c \in {"destroy", "A", "B", "sumo"}}

\* Variant: a failing apply_settings on A ends the restoration.
CloseSettingsStopAtFailure(stg, faults) ==
    IF "A" \in faults THEN stg
    ELSE [w \in WorldKeys |-> IF w \in faults THEN stg[w] ELSE OrigSettings]

\* Lines 275-282: apply_settings(orig) on A and on B, each in its own
\* try/except-pass; a world whose call fails keeps its settings.
CloseSettings(stg, faults) ==
    [w \in WorldKeys |-> IF w \in faults THEN stg[w] ELSE OrigSettings]

\* The body of close(): the destroys (a failing destroy() is swallowed by
\* _safe_destroy), then apply_settings(orig) on A, on B and
\* traci.close(False), each in its own try/except-pass; then back in the
\* caller: sys.exit(0) in _safe_exit, or on to sys.exit(2) in main.
Close ==
    /\ pc = "close"
    /\ LET hs == CloseTargets(actors, DOMAIN actors) IN
       \E faults \in CloseFaults :
          LET failed == "destroy" \in faults
              okA == "A" \notin faults
              okB == "B" \notin faults
              okS == "sumo" \notin faults
          IN
          /\ failed => hs # {}
          /\ sumo # "running" => okS
          /\ destroyCalls' = CountDestroy(destroyCalls, hs)
          /\ actors' = CloseRegistry(actors, DOMAIN actors)
          /\ settings' = CloseSettings(settings, faults)
          /\ sumo' = IF sumo = "running" /\ okS THEN "closed" ELSE sumo
          /\ hist' = [hist EXCEPT
                        !.closeDone = @ + 1,
                        !.closeLast = Cardinality(hs),
                        !.closeFaults = faults,
                        !.envFail = @ \/ failed \/ ~okA \/ ~okB \/ ~okS,
                        !.postDestroy = @ \/ \E h \in hs : destroyCalls[h] > 0]
    /\ IF hist.signalled
       THEN pc' = "done" /\ exitStatus' = 0
       ELSE pc' = "exit2" /\ exitStatus' = exitStatus
    /\ UNCHANGED <<BootVars, connected, bps, handlers, last_ids, LocalVars,
                   spawnLog, steps, ticks>>

\* sys.exit(2)
Exit2 ==
    /\ pc = "exit2"
    /\ exitStatus' = 2
    /\ pc' = "done"
    /\ UNCHANGED <<BootVars, connected, settings, bps, handlers, sumo, actors,
                   last_ids, LocalVars, WorldVars, steps, ticks, hist>>

Next ==
    \/ CheckArgs
    \/ LoadConfig
    \/ InitConnect
    \/ \E w \in WorldKeys : InitSync(w)
    \/ InitBlueprints
    \/ InitBoundaries
    \/ InstallHandlers
    \/ EarlySignal
    \/ StartSumo
    \/ SimStep
    \/ DestroyGone
    \/ BeginVehicles
    \/ ReadVehicle
    \/ \E w \in WorldKeys : Spawn(w)
    \/ \E w \in WorldKeys : Destroy(w)
    \/ \E w \in WorldKeys : Move(w)
    \/ Store
    \/ EndVehicles
    \/ \E w \in WorldKeys : Tick(w)
    \/ SetLast
    \/ RunRaises
    \/ Except
    \/ Signal
    \/ \E w \in WorldKeys : DestroyInterrupted(w)
    \/ DestroyGoneInterrupted
    \/ Close
    \/ Exit2

Spec == Init /\ [][Next]_vars

TypeOK ==
    /\ pc \in LoopPcs \cup {"main", "config", "connect", "syncA", "syncB", "bps",
                            "boundaries", "handlers", "start_sumo", "except",
                            "close", "exit2", "done"}
    /\ DOMAIN actors \subseteq Vehicles
    /\ Len(destroyCalls) = Len(spawnLog)
    /\ Len(spawnLog) <= MaxHandles
    /\ steps \in 0 .. MaxSteps

\* --------------------------------------------- zone classification alone

\* _assign_worlds applied to every zone and every position of a small grid.
ClassifyCoords == (0 - ClassifyRange) .. ClassifyRange
ClassifyZones ==
    {ZoneConfig(a, st, en) :
        a \in {"x", "y"},
        st \in (1 - ClassifyRange) .. (ClassifyRange - 1),
        en \in (1 - ClassifyRange) .. (ClassifyRange - 1)}
ClassifyConfigs == {MkConfig(z, GoodNet) : z \in {q \in ClassifyZones : q.start <= q.end}}

InitClassify ==
    /\ pc = "classify"
    /\ argc = 2
    /\ cfg \in ClassifyConfigs
    /\ catalog \in Catalogs
    /\ hashSeed = "s0"
    /\ connected = [w \in WorldKeys |-> FALSE]
    /\ settings = [w \in WorldKeys |-> OrigSettings]
    /\ bps = [w \in WorldKeys |-> 0]
    /\ handlers = FALSE
    /\ sumo = "off"
    /\ actors = EmptyReg
    /\ last_ids = {}
    /\ ids = {}
    /\ gone = {}
    /\ todo = {}
    /\ vid = NoVid
    /\ tf \in {[x |-> cx, y |-> cy, z |-> cfg.zone.z_offset, yaw |-> 0] :
                  cx \in ClassifyCoords, cy \in ClassifyCoords}
    /\ worlds_needed = {}
    /\ state = EmptySlots
    /\ spawnLog = <<>>
    /\ destroyCalls = <<>>
    /\ steps = 0
    /\ ticks = [w \in WorldKeys |-> 0]
    /\ exitStatus = -1
    /\ hist = HistInit

\* worlds_needed = self._assign_worlds(tf.location.x, tf.location.y)
Classify ==
    /\ pc = "classify"
    /\ worlds_needed' = _assign_worlds(cfg.zone, tf.x, tf.y)
    /\ pc' = "classified"
    /\ UNCHANGED <<BootVars, connected, settings, bps, handlers, sumo, actors,
                   last_ids, ids, gone, todo, vid, tf, state, WorldVars,
                   steps, ticks, exitStatus, hist>>

SpecClassify == InitClassify /\ [][Classify]_vars

\* ------------------------------------------------ blueprint selection alone

\* The first two lines of _spawn applied, request after request, to every
\* vehicle in either world, for every hash seed and every pair of non-empty
\* catalogs.
BlueprintCatalogs == [WorldKeys -> 1 .. MaxCatalog]

InitBlueprint ==
    /\ pc = "select"
    /\ argc = 2
    /\ cfg = MkConfig(ZoneConfig("x", -1, 1), GoodNet)
    /\ catalog \in BlueprintCatalogs
    /\ hashSeed \in HashSeeds
    /\ connected = [w \in WorldKeys |-> TRUE]
    /\ settings = [w \in WorldKeys |-> SyncSettings(cfg.step_length)]
    /\ bps = catalog
    /\ handlers = TRUE
    /\ sumo = "running"
    /\ actors = EmptyReg
    /\ last_ids = {}
    /\ ids = {}
    /\ gone = {}
    /\ todo = {}
    /\ vid = NoVid
    /\ tf = NoTf
    /\ worlds_needed = {}
    /\ state = EmptySlots
    /\ spawnLog = <<>>
    /\ destroyCalls = <<>>
    /\ steps = 0
    /\ ticks = [w \in WorldKeys |-> 0]
    /\ exitStatus = -1
    /\ hist = HistInit

\* idx = abs(hash(vid)) % len(bps); bp = bps[idx]
SelectBlueprint(w) ==
    /\ pc = "select"
    /\ Len(hist.bpLog) < MaxRequests
    /\ \E v \in Vehicles :
          /\ vid' = v
          /\ hist' = [hist EXCEPT !.bpLog =
                         Append(@, [vid |-> v, world |-> w, size |-> bps[w],
                                    idx |-> BlueprintIndex(Hash[hashSeed][v], bps[w])])]
    /\ UNCHANGED <<pc, BootVars, connected, settings, bps, handlers, sumo, actors,
                   last_ids, ids, gone, todo, tf, worlds_needed, state, WorldVars,
                   steps, ticks, exitStatus>>

SpecBlueprint == InitBlueprint /\ [][\E w \in WorldKeys : SelectBlueprint(w)]_vars

\* ------------------------------------------------ coordinate remap alone

\* sumo_to_carla_transform applied to the corners of the conv rectangle,
\* for every pair of rectangles of a small grid whose conv rectangle has a
\* width and a height (either orientation).
TransformCoords == (0 - TransformRange) .. TransformRange
TransformRects == [minX : TransformCoords, minY : TransformCoords,
                   maxX : TransformCoords, maxY : TransformCoords]
TransformNets ==
    [location : {TRUE},
     conv : {r \in TransformRects : r.maxX # r.minX /\ r.maxY # r.minY},
     orig : TransformRects]
TransformConfigs ==
    [zone : {ZoneConfig("x", -1, 1)}, step_length : {5}, net : TransformNets]

InitTransform ==
    /\ pc = "transform"
    /\ argc = 2
    /\ cfg \in TransformConfigs
    /\ catalog = [A |-> 2, B |-> 2]
    /\ hashSeed = "s0"
    /\ connected = [w \in WorldKeys |-> TRUE]
    /\ settings = [w \in WorldKeys |-> SyncSettings(cfg.step_length)]
    /\ bps = catalog
    /\ handlers = TRUE
    /\ sumo = "running"
    /\ actors = EmptyReg
    /\ last_ids = {}
    /\ ids = {}
    /\ gone = {}
    /\ todo = {}
    /\ vid = NoVid
    /\ tf = NoTf
    /\ worlds_needed = {}
    /\ state = EmptySlots
    /\ spawnLog = <<>>
    /\ destroyCalls = <<>>
    /\ steps = 0
    /\ ticks = [w \in WorldKeys |-> 0]
    /\ exitStatus = -1
    /\ hist = HistInit

\* tf = self.sumo_to_carla_transform(xs, ys, angle, z)
TransformCorner ==
    /\ pc = "transform"
    /\ ~TransformRaises(cfg.net)
    /\ \E xs \in {cfg.net.conv.minX, cfg.net.conv.maxX},
          ys \in {cfg.net.conv.minY, cfg.net.conv.maxY},
          angle \in Angles :
          /\ tf' = sumo_to_carla_transform(cfg.net, xs, ys, angle, cfg.zone.z_offset)
          /\ hist' = [hist EXCEPT !.srcPos = <<xs, ys>>]
    /\ pc' = "transformed"
    /\ UNCHANGED <<BootVars, connected, settings, bps, handlers, sumo, actors,
                   last_ids, ids, gone, todo, vid, worlds_needed, state, WorldVars,
                   steps, ticks, exitStatus>>

SpecTransform == InitTransform /\ [][TransformCorner]_vars

\* ------------------------------------------------- the control loop alone

\* The loop of run() going round without end: no call raises and no signal
\* arrives, and the steps and ticks are not counted. The world still
\* refuses to spawn once MaxHandles actors were spawned. One vehicle comes,
\* moves between the zones and goes as the source pleases.
RetryVehicles == {"v1"}

InitRetry ==
    /\ pc = "step"
    /\ argc = 2
    /\ cfg = MkConfig(ZoneConfig("x", -1, 1), GoodNet)
    /\ catalog = [A |-> 2, B |-> 2]
    /\ hashSeed = "s0"
    /\ connected = [w \in WorldKeys |-> TRUE]
    /\ settings = [w \in WorldKeys |-> SyncSettings(cfg.step_length)]
    /\ bps = catalog
    /\ handlers = TRUE
    /\ sumo = "running"
    /\ actors = EmptyReg
    /\ last_ids = {}
    /\ ids = {}
    /\ gone = {}
    /\ todo = {}
    /\ vid = NoVid
    /\ tf = NoTf
    /\ worlds_needed = {}
    /\ state = EmptySlots
    /\ spawnLog = <<>>
    /\ destroyCalls = <<>>
    /\ steps = 0
    /\ ticks = [w \in WorldKeys |-> 0]
    /\ exitStatus = -1
    /\ hist = HistInit

\* traci.simulationStep(); ids = set(traci.vehicle.getIDList());
\* list(self._last_ids - ids)
StepAgain ==
    /\ pc = "step"
    /\ \E now \in SUBSET RetryVehicles :
          /\ ids' = now
          /\ gone' = GoneList(last_ids, now)
    /\ pc' = "gone"
    /\ hist' = [hist EXCEPT !.spawnReq = {}, !.moved = {},
                            !.prev = [actors |-> actors,
                                      membership |-> hist.membership]]
    /\ UNCHANGED <<BootVars, connected, settings, bps, handlers, sumo, actors,
                   last_ids, todo, vid, tf, worlds_needed, state, WorldVars,
                   steps, ticks, exitStatus>>

\* self.world_a.tick() / self.world_b.tick()
TickAgain(w) ==
    /\ pc = IF w = "A" THEN "tickA" ELSE "tickB"
    /\ pc' = IF w = "A" THEN "tickB" ELSE "last"
    /\ UNCHANGED <<BootVars, connected, settings, bps, handlers, sumo, actors,
                   last_ids, LocalVars, WorldVars, steps, ticks, exitStatus, hist>>

NextRetry ==
    \/ StepAgain
    \/ DestroyGone
    \/ BeginVehicles
    \/ ReadVehicle
    \/ \E w \in WorldKeys : Spawn(w)
    \/ \E w \in WorldKeys : Destroy(w)
    \/ \E w \in WorldKeys : Move(w)
    \/ Store
    \/ EndVehicles
    \/ \E w \in WorldKeys : TickAgain(w)
    \/ SetLast

\* The main thread always executes its next statement.
SpecRetry == InitRetry /\ [][NextRetry]_vars /\ WF_vars(NextRetry)

\* ================================================================ claims

\* Positions of the loop at which worlds_needed holds the classification
\* of tf.
Classified == pc \in {"classified", "store"} \cup SlotOpPcs

\* The coordinate the zone's axis selects.
Selected == IF cfg.zone.axis = "x" THEN tf.x ELSE tf.y

(* C1: the classification is total: the selected coordinate (x, or y when  *)
(* axis = y) below start gives exactly {A}, above end exactly {B}, from    *)
(* start to end inclusive exactly {A, B}; the result is never empty.       *)
C1_ZoneClassification ==
    Classified =>
        /\ worlds_needed # {}
        /\ Selected < cfg.zone.start => worlds_needed = {"A"}
        /\ Selected > cfg.zone.end => worlds_needed = {"B"}
        /\ (cfg.zone.start <= Selected /\ Selected <= cfg.zone.end)
              => worlds_needed = {"A", "B"}

\* The y axis decides, on the buffer's first coordinate, against an x that
\* lies beyond the buffer.
C1_Witness ==
    /\ pc = "classified"
    /\ cfg.zone.axis = "y"
    /\ cfg.zone.start < cfg.zone.end
    /\ tf.y = cfg.zone.start
    /\ tf.x > cfg.zone.end
    /\ worlds_needed = {"A", "B"}

\* A step of run() has completed: the loop is back at simulationStep.
StepCompleted == pc = "step" /\ steps > 0

Present(reg, v, w) == v \in DOMAIN reg /\ reg[v][w] # NoActor

(* C2: after any completed step, for every live vehicle v and world w, the *)
(* slot of v for w is present iff w is in the membership computed for v in *)
(* that step and the most recent spawn attempt for (v, w) succeeded.       *)
C2_RegistryInvariant ==
    StepCompleted =>
        \A v \in last_ids, w \in WorldKeys :
            Present(actors, v, w)
                <=> (w \in hist.membership[v] /\ hist.lastSpawn[v][w] = "ok")

\* A vehicle in the buffer whose A actor exists and whose B spawn failed,
\* beside a vehicle that left zone A, whose A slot was cleared.
C2_Witness ==
    /\ StepCompleted
    /\ \E v \in last_ids :
          /\ hist.membership[v] = {"A", "B"}
          /\ Present(actors, v, "A")
          /\ hist.lastSpawn[v]["B"] = "fail"
          /\ ~Present(actors, v, "B")
    /\ \E v \in last_ids :
          /\ hist.membership[v] = {"B"}
          /\ hist.lastSpawn[v]["A"] = "ok"
          /\ ~Present(actors, v, "A")

(* C3: after any completed step the keys of the registry are exactly the   *)
(* vehicle ids the source returned in that step, which are _last_ids.      *)
C3_RegistryKeys ==
    StepCompleted => (DOMAIN actors = ids /\ last_ids = ids)

\* The second step ends with one vehicle kept and one vanished.
C3_Witness ==
    /\ StepCompleted
    /\ steps = 2
    /\ last_ids # {}
    /\ \E v \in DOMAIN hist.prev.actors : v \notin last_ids

\* The loop over the vanished vehicles is done and no world was ticked yet.
BeforeTickPcs == {"veh", "store", "tickA"} \cup SlotOpPcs
BeforeTicks == pc \in BeforeTickPcs

(* C4: a vehicle in the entity list of step N and not in that of step N+1  *)
(* has, before either world is ticked in step N+1, a destroy issued on     *)
(* each slot it had and no registry entry.                                 *)
C4_VanishedDestroyed ==
    BeforeTicks =>
        /\ ticks["A"] = steps - 1
        /\ ticks["B"] = steps - 1
        /\ \A v \in last_ids \ ids :
              /\ v \notin DOMAIN actors
              /\ \A w \in WorldKeys :
                    Present(hist.prev.actors, v, w)
                        => destroyCalls[hist.prev.actors[v][w]] >= 1

\* About to tick A in a step in which a vehicle with both slots vanished.
C4_Witness ==
    /\ pc = "tickA"
    /\ \E v \in last_ids \ ids :
          /\ Present(hist.prev.actors, v, "A")
          /\ Present(hist.prev.actors, v, "B")
          /\ destroyCalls[hist.prev.actors[v]["A"]] = 1
          /\ destroyCalls[hist.prev.actors[v]["B"]] = 1

\* A vehicle of this step that was also in the previous one, at the end of
\* this step's reconciliation and ticks.
Continuing == IF pc = "last" THEN ids \cap last_ids ELSE {}

(* C5: handoff. While A stays in a vehicle's membership over two           *)
(* consecutive steps its A actor is kept (no destroy, no spawn in A) and   *)
(* moved; on entering the buffer from zone A a spawn is requested in B;    *)
(* on leaving the buffer into zone B a destroy is issued on the A actor    *)
(* and the A slot is cleared while the B actor is kept.                    *)
C5_Handoff ==
    \A v \in Continuing :
        LET was == hist.prev.membership[v]
            now == hist.membership[v]
            pa == hist.prev.actors
        IN  /\ ("A" \in was /\ "A" \in now /\ Present(pa, v, "A"))
                 => /\ actors[v]["A"] = pa[v]["A"]
                    /\ destroyCalls[pa[v]["A"]] = 0
                    /\ pa[v]["A"] \in hist.moved
                    /\ <<v, "A">> \notin hist.spawnReq
            /\ (was = {"A"} /\ now = {"A", "B"})
                 => <<v, "B">> \in hist.spawnReq
            /\ (now = {"B"} /\ Present(pa, v, "A"))
                 => /\ destroyCalls[pa[v]["A"]] >= 1
                    /\ actors[v]["A"] = NoActor
            /\ (now = {"B"} /\ Present(pa, v, "B"))
                 => /\ actors[v]["B"] = pa[v]["B"]
                    /\ destroyCalls[pa[v]["B"]] = 0
                    /\ pa[v]["B"] \in hist.moved

\* One vehicle enters the buffer from zone A and gets its B actor while
\* another leaves the buffer into zone B and loses its A actor.
C5_Witness ==
    /\ pc = "last"
    /\ \E v \in ids \cap last_ids :
          /\ hist.prev.membership[v] = {"A"}
          /\ hist.membership[v] = {"A", "B"}
          /\ Present(hist.prev.actors, v, "A")
          /\ actors[v]["A"] = hist.prev.actors[v]["A"]
          /\ Present(actors, v, "B")
    /\ \E v \in ids \cap last_ids :
          /\ hist.prev.membership[v] = {"A", "B"}
          /\ hist.membership[v] = {"B"}
          /\ Present(hist.prev.actors, v, "A")
          /\ ~Present(actors, v, "A")

(* C6: when the spawn for (v, w) fails in a step (both attempts null, or   *)
(* the call raised), the entry of v exists at the end of the step with the *)
(* w slot absent; and in any step in which v is live with w in its         *)
(* membership and no w slot from before, a spawn is requested for (v, w).  *)
C6_SpawnRetry ==
    pc = "last" =>
        \A v \in ids, w \in WorldKeys :
            /\ (<<v, w>> \in hist.spawnReq /\ hist.lastSpawn[v][w] = "fail")
                 => (v \in DOMAIN actors /\ actors[v][w] = NoActor)
            /\ (w \in hist.membership[v] /\ ~Present(hist.prev.actors, v, w))
                 => <<v, w>> \in hist.spawnReq

\* The spawn for (v, w) failed in the previous step (w was in the
\* membership and the slot stayed absent); this step requested it again
\* and it succeeded.
C6_Witness ==
    /\ pc = "last"
    /\ \E v \in ids \cap last_ids, w \in WorldKeys :
          /\ w \in hist.prev.membership[v]
          /\ v \in DOMAIN hist.prev.actors
          /\ hist.prev.actors[v][w] = NoActor
          /\ <<v, w>> \in hist.spawnReq
          /\ Present(actors, v, w)

(* C7: lockstep. At every iteration boundary the numbers of source steps,  *)
(* of A ticks and of B ticks are equal; inside an iteration the one source *)
(* step comes first, then the tick of A, then the tick of B; and both      *)
(* worlds are in synchronous mode with fixed delta = step_length from      *)
(* before the first step on.                                               *)
C7_Lockstep ==
    /\ pc \in {"step", "last"} => (ticks["A"] = steps /\ ticks["B"] = steps)
    /\ pc \in {"gone"} \cup BeforeTickPcs
          => (ticks["A"] = steps - 1 /\ ticks["B"] = steps - 1)
    /\ pc = "tickB" => (ticks["A"] = steps /\ ticks["B"] = steps - 1)
    /\ pc \in LoopPcs
          => \A w \in WorldKeys :
                /\ settings[w].synchronous_mode
                /\ settings[w].fixed_delta_seconds = cfg.step_length

\* Two full iterations were made.
C7_Witness ==
    /\ pc = "step"
    /\ steps = 2
    /\ ticks["A"] = 2
    /\ ticks["B"] = 2

(* C8: a close() begun after an earlier close() returned issues no destroy *)
(* and ends without error; over both calls every actor the registry held   *)
(* at the first call received exactly one destroy call.                    *)
C8_CloseTwice ==
    hist.closeSeq =>
        /\ hist.closeLast = 0
        /\ \A h \in hist.closeReg : destroyCalls[h] = 1
        /\ hist.closeDone = 2 => (pc = "done" /\ exitStatus = 0)

\* main's except clause closed a registry holding actors, the signal came
\* before sys.exit(2), and the handler's close() returned too.
C8_Witness ==
    /\ hist.closeSeq
    /\ hist.closeDone = 2
    /\ hist.closeReg # {}
    /\ pc = "done"

\* The actors the bridge spawned and never called destroy() on.
Undestroyed == {h \in 1 .. Len(spawnLog) : destroyCalls[h] = 0}

(* C9: a signal delivered at any point of the control loop leads to a      *)
(* teardown after which no actor the bridge spawned is still alive, both   *)
(* worlds have their original settings again and the source is closed      *)
(* (stated for the runs in which no destroy, apply_settings or traci.close *)
(* call failed).                                                           *)
C9_InterruptTeardown ==
    (pc = "done" /\ hist.signalled /\ ~hist.raised /\ ~hist.envFail) =>
        /\ Undestroyed = {}
        /\ \A w \in WorldKeys : settings[w] = OrigSettings
        /\ sumo # "running"

(* C10: a wrong argument count exits with status 1 before any world        *)
(* connection; an exception escaping the loop runs close() and exits with  *)
(* status 2; a signal runs close() and exits with status 0; and whenever a *)
(* world was connected, close() has run before the exit.                   *)
C10_ExitStatus ==
    pc = "done" =>
        /\ argc # 2 => (exitStatus = 1 /\ \A w \in WorldKeys : ~connected[w])
        /\ (hist.raised /\ ~hist.signalled) => (exitStatus = 2 /\ hist.closeDone >= 1)
        /\ hist.signalled => (exitStatus = 0 /\ hist.closeDone >= 1)
        /\ (\E w \in WorldKeys : connected[w]) => hist.closeDone >= 1

C12_BoundaryRemap ==
    pc = "transformed" =>
        /\ hist.srcPos[1] = cfg.net.conv.minX => tf.x = cfg.net.orig.minX
        /\ hist.srcPos[1] = cfg.net.conv.maxX => tf.x = cfg.net.orig.maxX
        /\ hist.srcPos[2] = cfg.net.conv.minY => tf.y = 0 - cfg.net.orig.minY
        /\ hist.srcPos[2] = cfg.net.conv.maxY => tf.y = 0 - cfg.net.orig.maxY

\* The max corner of a conv rectangle, mapped onto an orig rectangle of
\* another size and place whose corners differ in both coordinates.
C12_Witness ==
    /\ pc = "transformed"
    /\ hist.srcPos = <<cfg.net.conv.maxX, cfg.net.conv.maxY>>
    /\ cfg.net.orig.maxX - cfg.net.orig.minX # cfg.net.conv.maxX - cfg.net.conv.minX
    /\ cfg.net.orig.minX # cfg.net.conv.minX
    /\ cfg.net.orig.maxY > cfg.net.orig.minY
    /\ cfg.net.orig.maxY > 0
    /\ tf.x = cfg.net.orig.maxX
    /\ tf.y = 0 - cfg.net.orig.maxY

\* The actors spawned for vehicles that are not in the current entity list.
Stale == {h \in 1 .. Len(spawnLog) : spawnLog[h][1] \notin ids}

PosePcs == {"spawnA", "spawnB", "moveA", "moveB"}

(* C14: the pose handed to every spawn's first attempt and to every move   *)
(* of a step has z equal to the configured zone z_offset; a failed first   *)
(* attempt in one world does not change the z of the other world's spawn   *)
(* or of the moves that follow.                                            *)
C14_PoseZ ==
    pc \in PosePcs => tf.z = cfg.zone.z_offset

\* The calls of the latest _spawn and the last of them.
Tried == hist.tries.calls
LastTry == Tried[Len(Tried)]

(* C15: a spawn request makes one or two try-spawn calls; the second is    *)
(* made exactly when the first returned null, with z increased by the bump *)
(* once; the request returns the actor of the last call, or failure when   *)
(* that call returned null or raised, and the same request is not made     *)
(* again in that step.                                                     *)
C15_TwoAttempts ==
    /\ Tried # <<>> =>
          /\ Len(Tried) \in {1, 2}
          /\ Len(Tried) = 2 <=> Tried[1].result = "null"
          /\ Len(Tried) = 2 => Tried[2].z = Tried[1].z + ZBump
          /\ tf.z = LastTry.z
          /\ LastTry.result = "actor" <=> state[hist.tries.world] # NoActor
          /\ <<vid, hist.tries.world>> \in hist.spawnReq
    /\ \A w \in WorldKeys : pc = PcSpawn[w] => <<vid, w>> \notin hist.spawnReq

\* Both calls for world A returned null: the request failed and the
\* reconciliation went on to the request for world B.
C15_Witness ==
    /\ pc = "spawnB"
    /\ hist.tries.world = "A"
    /\ Len(Tried) = 2
    /\ Tried[2].result = "null"
    /\ Tried[2].z = cfg.zone.z_offset + ZBump
    /\ state["A"] = NoActor

(* C16: _spawn never raises to its caller: whatever the vehicle id, the    *)
(* catalog the world reported (an empty one included) and the failures of  *)
(* the blueprint and spawn calls, no exception leaves a _spawn call.       *)
C16_SpawnNeverRaises ==
    ~hist.spawnRaised

\* The destroy statements of the vehicle being reconciled are behind.
AfterDestroys == pc \in {"moveA", "moveB", "store"}

\* The slots the vehicle being reconciled had when this step began.
SlotsBefore == GetState(hist.prev.actors, vid)

(* C17: once the destroy statements of a vehicle are passed, every world   *)
(* outside its membership has an absent slot, and the actor that slot held *)
(* got exactly one destroy call, whether that call failed or not; a slot   *)
(* of a world inside the membership got none and holds the same actor; and *)
(* no actor ever gets a second destroy call in the loop.                   *)
C17_DestroyClears ==
    /\ AfterDestroys =>
          \A w \in WorldKeys :
              /\ w \notin worlds_needed =>
                    /\ state[w] = NoActor
                    /\ SlotsBefore[w] # NoActor => destroyCalls[SlotsBefore[w]] = 1
              /\ (w \in worlds_needed /\ SlotsBefore[w] # NoActor) =>
                    /\ state[w] = SlotsBefore[w]
                    /\ destroyCalls[SlotsBefore[w]] = 0
    /\ pc \in LoopPcs => \A h \in 1 .. Len(spawnLog) : destroyCalls[h] <= 1

\* A vehicle left zone A for zone B; the one destroy call made so far, on
\* its A actor, failed, and the slot is empty all the same.
C17_Witness ==
    /\ AfterDestroys
    /\ worlds_needed = {"B"}
    /\ SlotsBefore["A"] # NoActor
    /\ state["A"] = NoActor
    /\ hist.envFail
    /\ \A h \in 1 .. Len(spawnLog) :
          destroyCalls[h] = IF h = SlotsBefore["A"] THEN 1 ELSE 0

\* The spawn requested for (v, w) in this step failed.
SpawnFailed(v, w) == <<v, w>> \in hist.spawnReq /\ hist.lastSpawn[v][w] = "fail"

\* Vehicle v went through the whole of lines 252-266 in this step.
Reconciled(v) ==
    /\ v \in DOMAIN actors
    /\ \A w \in WorldKeys :
          IF w \in hist.membership[v]
          THEN \/ actors[v][w] # NoActor /\ actors[v][w] \in hist.moved
               \/ actors[v][w] = NoActor /\ SpawnFailed(v, w)
          ELSE /\ actors[v][w] = NoActor
               /\ Present(hist.prev.actors, v, w)
                     => destroyCalls[hist.prev.actors[v][w]] >= 1

C19_StepFailureTeardown ==
    (pc = "done" /\ hist.raised /\ ~hist.signalled /\ ~hist.envFail) =>
        /\ \A h \in 1 .. Len(spawnLog) : destroyCalls[h] >= 1
        /\ settings = [w \in WorldKeys |-> OrigSettings]
        /\ exitStatus = 2

(* C20: when close() has returned, the registry is empty and every actor   *)
(* it held when close() was first entered had destroy() called on it; each *)
(* of the three attempts that follow (settings of A, settings of B, close  *)
(* of the source) was made and took effect unless it is the one that       *)
(* failed: a failing destroy or a failing attempt is swallowed and stops   *)
(* none of the others.                                                     *)
C20_CloseBestEffort ==
    hist.closeDone >= 1 =>
        /\ actors = EmptyReg
        /\ \A h \in hist.closeReg : destroyCalls[h] >= 1
        /\ \A w \in WorldKeys :
              w \notin hist.closeFaults => settings[w] = OrigSettings
        /\ "sumo" \notin hist.closeFaults => sumo # "running"
        /\ pc \in {"exit2", "close", "done"}

\* close() in main's except clause found actors of two vehicles; the
\* apply_settings of A failed, B was restored and the source closed.
C20_Witness ==
    /\ pc = "exit2"
    /\ hist.closeDone = 1
    /\ hist.closeFaults = {"A"}
    /\ \E h \in hist.closeReg, k \in hist.closeReg : spawnLog[h][1] # spawnLog[k][1]
    /\ settings["A"].synchronous_mode
    /\ settings["B"] = OrigSettings
    /\ sumo = "closed"
    /\ actors = EmptyReg

\* A rectangle without width or without height.
Flat(r) == r.maxX = r.minX \/ r.maxY = r.minY

\* The calibration of the net file is degenerate.
Degenerate(net) == ~net.location \/ Flat(net.conv) \/ Flat(net.orig)

(* C21: with a degenerate calibration (a bounding box of zero width or     *)
(* height, or no boundary metadata) the run never starts: the source is    *)
(* never stepped, and no actor is spawned or moved.                        *)
C21_CalibrationRejected ==
    Degenerate(cfg.net) =>
        /\ steps = 0
        /\ spawnLog = <<>>
        /\ hist.moved = {}

\* The _spawn of line 253 / 255 for vehicle v in world w returns an actor.
SpawnSucceeds(v, w) == Spawn(w) /\ vid = v /\ state'[w] # NoActor

\* At an iteration boundary: v is live, w is in its membership and its
\* slot for w is absent (the spawn failed).
Wanting(v, w) ==
    /\ pc = "step"
    /\ v \in last_ids
    /\ w \in hist.membership[v]
    /\ ~Present(actors, v, w)

\* A present slot is given up only for a vanished vehicle or for a world
\* that left the membership.
Kept(v, w) ==
    (Present(actors, v, w) /\ (v \notin DOMAIN actors' \/ actors'[v][w] # actors[v][w]))
        => \/ pc = "gone" /\ v \in gone
           \/ pc = PcDestroy[w] /\ vid = v /\ w \notin worlds_needed

(* C22: retry until success. With the loop going round for ever, if the    *)
(* spawn for (v, w) does not fail for ever (it succeeds at some time when  *)
(* it is attempted again and again), then from every iteration boundary    *)
(* at which v is live with w in its membership and no slot for w, the slot *)
(* becomes present, unless w leaves the membership, v vanishes or the      *)
(* world accepts no further actor; and a present slot stays, with the same *)
(* actor, until v vanishes or w leaves the membership.                     *)
C22_RetryUntilSuccess ==
    /\ \A v \in RetryVehicles, w \in WorldKeys :
          SF_vars(SpawnSucceeds(v, w))
              => (Wanting(v, w) ~> \/ Present(actors, v, w)
                                   \/ w \notin hist.membership[v]
                                   \/ Len(spawnLog) = MaxHandles)
    /\ [][\A v \in RetryVehicles, w \in WorldKeys : Kept(v, w)]_vars

\* The spawn for (v, w) failed in the step before and in the one before
\* that one the slot was absent too; now the request was made again and
\* gave the actor, which was moved.
C22_Witness ==
    /\ pc = "last"
    /\ Len(spawnLog) < MaxHandles
    /\ \E v \in RetryVehicles, w \in WorldKeys :
          /\ v \in last_ids
          /\ w \in hist.prev.membership[v]
          /\ ~Present(hist.prev.actors, v, w)
          /\ SpawnFailed(v, w) = FALSE
          /\ <<v, w>> \in hist.spawnReq
          /\ Present(actors, v, w)
          /\ actors[v][w] \in hist.moved

(* C23: whenever the process has terminated, every world whose settings    *)
(* were switched to synchronous mode has its originally captured settings  *)
(* again, startup failures after _apply_sync and interrupts before the     *)
(* handlers are installed included (stated for the runs in which no        *)
(* destroy, apply_settings or traci.close call of a teardown failed).      *)
C23_SettingsRestored ==
    (pc = "done" /\ ~hist.envFail) =>
        \A w \in WorldKeys : settings[w] = OrigSettings

\* The live actors of vehicle v in world w, every destroy() call having
\* destroyed its actor.
LiveFor(v, w) == {h \in Undestroyed : spawnLog[h] = <<v, w>>}

(* C24: as long as no destroy call failed, each vehicle id has at most one *)
(* live actor of the bridge in each world, and no spawn is requested for   *)
(* (v, w) while an actor spawned for (v, w) is live; also after the        *)
(* vehicle left the zone of w and came back, and after the id vanished     *)
(* and was used again.                                                     *)
C24_OneLiveActor ==
    ~hist.envFail =>
        /\ \A v \in Vehicles, w \in WorldKeys : Cardinality(LiveFor(v, w)) <= 1
        /\ \A w \in WorldKeys : pc = PcSpawn[w] => LiveFor(vid, w) = {}

\* The vehicle has its second actor in a world, the first one destroyed,
\* and had an actor in the other world in between.
C24_Witness ==
    /\ ~hist.envFail
    /\ \E h, i, k \in 1 .. Len(spawnLog) :
          /\ h < i
          /\ i < k
          /\ spawnLog[h] = spawnLog[k]
          /\ spawnLog[i] # spawnLog[h]
          /\ destroyCalls[h] = 1
          /\ destroyCalls[k] = 0
          /\ Present(actors, spawnLog[k][1], spawnLog[k][2])
          /\ actors[spawnLog[k][1]][spawnLog[k][2]] = k

(* C25: no set_transform and no second destroy is ever issued on an actor  *)
(* handle on which destroy was issued, over any steps followed by          *)
(* shutdown.                                                               *)
C25_NoUseAfterDestroy ==
    /\ ~hist.postDestroy
    /\ \A h \in 1 .. Len(spawnLog) : destroyCalls[h] <= 1

====
